---- MODULE Spec2Model ----
(***************************************************************************)
(* A model of the fit thread of bumps' webview server                      *)
(* (src/bumps/webview/server/fit_thread.py): one FitThread running a fit   *)
(* on a private copy of the caller's problem, the three GUI monitors it    *)
(* attaches to the fit, the two process-wide asyncio queues it publishes   *)
(* to, the caller (who may change the problem and request an abort) and    *)
(* the event loop that consumes the queues; and the console redirection    *)
(* run() captures its report with (redirect_console, src/bumps/util.py).   *)
(*                                                                         *)
(* Option values: <<>> is None / "attribute absent", <<v>> is the value v. *)
(***************************************************************************)
EXTENDS Integers, Sequences, FiniteSets, TLC

\* ------------------------------------------------------------------ bounds
MaxSteps == 2          \* iteration budget of the fit in the general runs
MaxAborts == 2         \* abort requests the caller makes at most
MaxMutations == 1      \* changes the caller makes to its problem at most
MaxPop == 4            \* population sizes of the quantile runs are 1..MaxPop
MaxVal == 3            \* population values of the quantile runs are 1..MaxVal
MaxToySteps == 5       \* iterations of the deterministic fitter of the scenario
MaxDepth == 3          \* with-blocks one thread nests at most
MaxBlocks == 4         \* with-blocks one thread enters at most in the nesting runs
MaxJobs == 2           \* jobs that capture their report at the same time

\* -------------------------------------------------------- program constants
PROGRESS_DELAY == 5
IMPROVEMENT_DELAY == 5

\* Elapsed-time increments of one iteration (history.time is in seconds).
DT == {1, 6}
\* Cadences the caller passes as convergence_update / uncertainty_update.
Rates == {0, 2}

VARIABLES
    problem,            \* FitThread.problem: the caller's own problem object
    mutations,          \* how many times the caller has changed it
    abort_queue,        \* FitThread.abort_queue
    options,            \* what the thread was constructed with, and the fitter's behaviour
    pc,                 \* where the worker thread is in run()
    idx,                \* the monitor (or monitor part) the worker is at
    pendingWake,        \* the queue whose loop the worker is about to signal
    snapshot,           \* run()'s local `problem`: the deep copy
    history,            \* the fitter's History
    progressMon,        \* the GUIProgressMonitor
    convMon,            \* the ConvergenceMonitor
    dreamMon,           \* the DreamMonitor
    FIT_PROGRESS_QUEUE,
    FIT_COMPLETE_QUEUE,
    wake,               \* a byte is waiting in the loop's self-pipe
    consumer,           \* the event loop: "parked" or "running"
    delivered,          \* the events the consumer has taken, in order
    published,          \* log: one entry per event put on a queue
    nEvals,             \* evaluation batches started
    pollTrue,           \* abort_test has returned True to the fitter
    finalLog,           \* monitors whose final() has been called, in order
    result,             \* FitThread.result
    captured,           \* log: the last uncertainty state a DreamMonitor call found
    observedBefore,     \* log: the lowest value the monitors saw at earlier calls
    sys_stdout,         \* sys.stdout, one for the process
    sys_stderr,         \* sys.stderr
    rc,                 \* the redirect_console objects threads use in with-blocks
    threads             \* the threads that use them: their with-blocks, innermost last

vars == <<problem, mutations, abort_queue, options, pc, idx, pendingWake,
          snapshot, history, progressMon, convMon, dreamMon,
          FIT_PROGRESS_QUEUE, FIT_COMPLETE_QUEUE, wake, consumer, delivered,
          published, nEvals, pollTrue, finalLog, result, captured,
          observedBefore, sys_stdout, sys_stderr, rc, threads>>

callerVars == <<problem, mutations, abort_queue>>
workerVars == <<pc, idx, pendingWake, snapshot, history, progressMon, convMon,
                dreamMon, nEvals, pollTrue, finalLog, result>>
bridgeVars == <<FIT_PROGRESS_QUEUE, FIT_COMPLETE_QUEUE, published>>
consumerVars == <<wake, consumer, delivered>>
ghostVars == <<captured, observedBefore>>
consoleVars == <<sys_stdout, sys_stderr, rc, threads>>

\* ----------------------------------------------------------------- helpers
Last(s) == s[Len(s)]

RECURSIVE SelectSeqBy(_, _)
SelectSeqBy(s, kinds) ==
    IF s = <<>> THEN <<>>
    ELSE IF Head(s).message \in kinds
         THEN <<Head(s)>> \o SelectSeqBy(Tail(s), kinds)
         ELSE SelectSeqBy(Tail(s), kinds)

\* np.sort: ascending, by insertion.
RECURSIVE Insert(_, _)
Insert(x, s) ==
    IF s = <<>> THEN <<x>>
    ELSE IF x <= Head(s) THEN <<x>> \o s
         ELSE <<Head(s)>> \o Insert(x, Tail(s))

\* (a sort that leaves the array as it is)
np_sort_none(a) == a

RECURSIVE np_sort(_)
np_sort(a) == IF a = <<>> THEN <<>> ELSE Insert(Head(a), np_sort(Tail(a)))

\* Python's p[i]: a negative index counts from the end.
PyIndex(p, i) == IF i < 0 THEN p[Len(p) + i + 1] ELSE p[i + 1]

\* int(0.2*n) and int(0.5*n): the product truncated (the double nearest 0.2 is
\* above 1/5, so the product is never below n/5).
QIof(n) == (2 * n) \div 10
Qmidof(n) == (5 * n) \div 10

\* ------------------------------------------------- the fitter (bumps.fitters)
\* The population the toy fitter holds at a step.
ToyPopulation(step) == [i \in 1..5 |-> <<5, 3, 9, 1, 7>>[i] + step]

\* Populations of the quantile runs: every array of 0..MaxPop values, and the
\* documented example.
RECURSIVE SeqsOfLen(_)
SeqsOfLen(n) ==
    IF n = 0 THEN {<<>>}
    ELSE {Append(s, v) : s \in SeqsOfLen(n - 1), v \in 1..MaxVal}

QuantileInputs == UNION {SeqsOfLen(n) : n \in 0..MaxPop} \cup {<<5, 3, 9, 1, 7>>}

\* history.population_values[0] after the next iteration, as an option.
Populations(step) ==
    CASE options.pops = "none" -> {<<>>}
      [] options.pops = "toy" -> {<<ToyPopulation(step)>>}
      [] options.pops = "any" -> {<<>>} \cup {<<p>> : p \in QuantileInputs}

\* history.uncertainty_state after the next iteration: only a sampler has one,
\* and not on every iteration.
UncertaintyStates(step) ==
    IF options.sampler THEN {<<>>, <<step>>} ELSE {<<>>}

\* nllf_scale(problem): the chisq scale and its error, from the problem's
\* degrees of freedom.
nllf_scale(p) == [scale |-> p.dof, err |-> p.dof - 1]

\* format_uncertainty(v, err)
format_uncertainty(v, err) == <<v, err>>

\* ------------------------------------------------- objects and their copies
\* The objects the worker changes in place while it runs: the fitter's point
\* buffer, the convergence monitor's list and the sampler's state.  A payload is
\* stored either in one of them or in an object of its own ("fresh").
\* (no copy: the payload is the buffer itself)
same_object(buf) == buf

\* history.point[0]+0: the sum is a new array.
plus_zero(buf) == "fresh"

\* np.array(self.pop), or np.empty(...) for an empty list: a new array.
np_array(buf) == "fresh"

\* copy.deepcopy(self.uncertainty_state): a new object.
deepcopy(buf) == "fresh"

\* ----------------------------------------------------------- the bridge
\* (a queue that puts the new event first)
put_first(q, evt) == <<evt>> \o q

\* asyncio.Queue.put_nowait: first in, first out.
put_nowait(q, evt) == Append(q, evt)

\* The event as the queue holds it: `seq` numbers the job's publications.
Stamp(evt) == evt @@ [seq |-> Len(published) + 1]

LogEntry(evt, mon, phase) ==
    [seq |-> Len(published) + 1, message |-> evt.message, mon |-> mon,
     phase |-> phase, at |-> history.time]

\* send_progress up to the wake-up: the event is on the progress queue.
send_progress(evt, mon, phase) ==
    /\ FIT_PROGRESS_QUEUE' = put_nowait(FIT_PROGRESS_QUEUE, Stamp(evt))
    /\ published' = Append(published, LogEntry(evt, mon, phase))
    /\ pendingWake' = "progress"
    /\ UNCHANGED FIT_COMPLETE_QUEUE

\* send_complete up to the wake-up.
send_complete(evt) ==
    /\ FIT_COMPLETE_QUEUE' = put_nowait(FIT_COMPLETE_QUEUE, Stamp(evt))
    /\ published' = Append(published, LogEntry(evt, "run", "run"))
    /\ pendingWake' = "complete"
    /\ UNCHANGED FIT_PROGRESS_QUEUE

no_send == UNCHANGED <<FIT_PROGRESS_QUEUE, FIT_COMPLETE_QUEUE, published, pendingWake>>

\* ------------------------------------------------------------ the monitors
\* monitor.TimedUpdate.__init__ as GUIProgressMonitor.__init__ calls it.
GUIProgressMonitorInit ==
    [progress_delta |-> PROGRESS_DELAY,
     improvement_delta |-> IMPROVEMENT_DELAY,
     progress_time |-> 0 - PROGRESS_DELAY - 1,
     improvement_time |-> 0 - IMPROVEMENT_DELAY - 1,
     value |-> <<>>,
     improved |-> FALSE]

ConvergenceMonitorInit(rate) == [time |-> 0, rate |-> rate, pop |-> <<>>]

DreamMonitorInit(rate) == [time |-> 0, rate |-> rate, uncertainty_state |-> <<>>]

\* TimedUpdate.__call__: is a progress report due?
ProgressDue(m, t) == t > m.progress_time + m.progress_delta

\* GUIProgressMonitor.show_progress
ProgressEvent ==
    LET s == nllf_scale(problem)
    IN [message |-> "progress",
        step |-> history.step,
        value |-> history.value,
        chisq |-> format_uncertainty(s.scale * history.value, s.err),
        point |-> history.point,
        storage |-> plus_zero("history.point")]

\* (an improvement sent under the message of a progress report)
ImprovementEventAsProgress ==
    [problem |-> "original",
     message |-> "progress",
     step |-> history.step,
     value |-> history.value,
     point |-> history.point,
     storage |-> plus_zero("history.point")]

\* GUIProgressMonitor.show_improvement
ImprovementEvent ==
    [problem |-> "original",
     message |-> "improvement",
     step |-> history.step,
     value |-> history.value,
     point |-> history.point,
     storage |-> plus_zero("history.point")]

\* ConvergenceMonitor.__call__: the entry it records for this sample.
ConvergenceEntry(best, popv) ==
    IF popv = <<>> THEN <<best>>
    ELSE LET pop == popv[1]
             n == Len(pop)
             p == np_sort(pop)
             QI == QIof(n)
             Qmid == Qmidof(n)
         IN <<best, PyIndex(p, 0), PyIndex(p, QI), PyIndex(p, Qmid),
              PyIndex(p, -1 - QI), PyIndex(p, -1)>>

\* p[0] of an empty array raises IndexError, which __call__ does not catch.
ConvergenceRaises(popv) == popv # <<>> /\ popv[1] = <<>>

\* (a gate that forgets the time of the last update)
ConvergenceDueSinceStart(rate, t, last) == rate > 0 /\ t >= rate

\* (the gate without its rate > 0 test)
ConvergenceDueAtRateZero(rate, t, last) == t >= last + rate

\* ConvergenceMonitor.__call__: is an update due?
ConvergenceDue(rate, t, last) == rate > 0 /\ t >= last + rate

\* (an event that carries the newest entry only)
ConvergenceEventNewEntry(m) ==
    [problem |-> "original", message |-> "convergence_update",
     pop |-> IF m.pop = <<>> THEN <<>> ELSE <<m.pop[Len(m.pop)]>>,
     storage |-> np_array("self.pop")]

\* ConvergenceMonitor.progress and the event around it.
ConvergenceEvent(m) ==
    [problem |-> "original", message |-> "convergence_update", pop |-> m.pop,
     storage |-> np_array("self.pop")]

\* DreamMonitor.__call__: is an update due?
UncertaintyDue(rate, t, last, state) == rate > 0 /\ t >= last + rate /\ state # <<>>

UncertaintyEvent(kind, state) ==
    [problem |-> "original", message |-> kind, uncertainty_state |-> state[1],
     storage |-> deepcopy("uncertainty_state")]

\* hasattr(M, 'final') for the monitor at place i of run()'s list.  TimedUpdate,
\* the base of GUIProgressMonitor, is a Monitor with the finalize capability.
TimedUpdateHasFinal == TRUE
HasFinal(i) == IF i = 1 THEN TimedUpdateHasFinal ELSE TRUE

\* run()'s `monitors` list, and the parts the fitter's calls to them go through:
\* the GUIProgressMonitor reports progress, then improvement.
Monitors == <<"progress", "convergence", "uncertainty">>
NMonitors == Len(Monitors)

\* (a test that takes a second request for a withdrawal)
abort_test_single == Len(abort_queue) = 1

\* (a test that never sees the request)
abort_test_never == FALSE

\* FitThread.abort_test
abort_test == abort_queue # <<>>

\* -------------------------------------------- the console (bumps.util)
\* A stream is <<kind, number>>.  The streams the process starts with:
OriginalStdout == <<"stdout", 0>>
OriginalStderr == <<"stderr", 0>>

\* redirect_console.__init__: stdout is the stream to write to (the StringIO
\* made for stdout=None, the file given or opened), stderr the one given or
\* opened, or the same stream when none is given (err = <<>>).
redirect_console_init(out, err) ==
    [stdout |-> out,
     stderr |-> IF err = <<>> THEN out ELSE err[1],
     sys_stdout |-> <<>>,
     sys_stderr |-> <<>>]

\* (the stream pushed first)
pushed_first(stack) == stack[1]

\* self.sys_stdout[-1], self.sys_stderr[-1]: the stream pushed last.
pushed_last(stack) == stack[Len(stack)]

\* del stack[-1]
del_last(stack) == SubSeq(stack, 1, Len(stack) - 1)

\* The k-th statement of redirect_console.__enter__, on c = the two process
\* streams and the object (self).
enter_statement(c, k) ==
    CASE k = 1 -> [c EXCEPT !.self.sys_stdout = Append(@, c.sys_stdout)]
      [] k = 2 -> [c EXCEPT !.self.sys_stderr = Append(@, c.sys_stderr)]
      [] k = 3 -> [c EXCEPT !.sys_stdout = c.self.stdout]
      [] k = 4 -> [c EXCEPT !.sys_stderr = c.self.stderr]

\* The k-th statement of redirect_console.__exit__.
exit_statement(c, k) ==
    CASE k = 1 -> [c EXCEPT !.sys_stdout = pushed_last(c.self.sys_stdout)]
      [] k = 2 -> [c EXCEPT !.sys_stderr = pushed_last(c.self.sys_stderr)]
      [] k = 3 -> [c EXCEPT !.self.sys_stdout = del_last(@)]
      [] k = 4 -> [c EXCEPT !.self.sys_stderr = del_last(@)]

\* __exit__ returns False: an exception of the block goes on.
exit_returns == FALSE

redirect_console_enter(c) ==
    enter_statement(enter_statement(enter_statement(enter_statement(c, 1), 2), 3), 4)

redirect_console_exit(c) ==
    exit_statement(exit_statement(exit_statement(exit_statement(c, 1), 2), 3), 4)

\* --------------------------------------------------------------- the state
\* What a job is started with: the two cadences, and the fitter: how many
\* iterations it runs when nobody aborts it, the time an iteration may take,
\* whether an iteration may or must improve the best value, what population it
\* keeps and whether it is a sampler with an uncertainty state.
Job(c, u, n, dts, improve, pops, smp) ==
    [convergence_update |-> c, uncertainty_update |-> u, steps |-> n, dts |-> dts,
     improve |-> improve, pops |-> pops, sampler |-> smp]

InitOptions ==
    {Job(c, u, n, DT, BOOLEAN, IF smp THEN "toy" ELSE "none", smp) :
        c \in Rates, u \in Rates, n \in 0..MaxSteps, smp \in BOOLEAN}

\* The end-to-end scenario: a deterministic fitter of 1..MaxToySteps iterations,
\* convergence cadence 0.
ScenarioOptions ==
    {Job(0, u, n, {1}, {TRUE}, "toy", FALSE) : u \in Rates, n \in 1..MaxToySteps}

\* The fair runs: both cadences 2, and a fitter whose every iteration takes 6
\* seconds and improves the best value, so that every gate opens.
LiveOptions ==
    {Job(2, 2, n, {6}, {TRUE}, IF smp THEN "toy" ELSE "none", smp) :
        n \in 0..MaxSteps, smp \in BOOLEAN}

\* The quantile runs: one iteration on any population.
QuantileOptions == {Job(c, 0, 1, {1}, BOOLEAN, "any", FALSE) : c \in Rates}

FitInit(opts) ==
    /\ problem = [dof |-> 1, params |-> 0]
    /\ mutations = 0
    /\ abort_queue = <<>>
    /\ options \in opts
    /\ pc = "run"
    /\ idx = 0
    /\ pendingWake = "none"
    /\ snapshot = <<>>
    /\ history = [step |-> 0, time |-> 0, value |-> 0, point |-> 0,
                  population_values |-> <<>>, uncertainty_state |-> <<>>]
    /\ progressMon = GUIProgressMonitorInit
    /\ convMon = ConvergenceMonitorInit(0)
    /\ dreamMon = DreamMonitorInit(0)
    /\ FIT_PROGRESS_QUEUE = <<>>
    /\ FIT_COMPLETE_QUEUE = <<>>
    /\ wake = FALSE
    /\ consumer = "parked"
    /\ delivered = <<>>
    /\ published = <<>>
    /\ nEvals = 0
    /\ pollTrue = FALSE
    /\ finalLog = <<>>
    /\ result = <<>>
    /\ captured = <<>>
    /\ observedBefore = <<>>

\* The process console as it starts, and no thread nesting with-blocks.
ConsoleIdle ==
    /\ sys_stdout = OriginalStdout
    /\ sys_stderr = OriginalStderr
    /\ rc = <<>>
    /\ threads = <<>>

InitWith(opts) == FitInit(opts) /\ ConsoleIdle

\* FitThread.start() has returned: the thread exists and run() has not begun.
Init == InitWith(InitOptions)

\* --------------------------------------------------------------- the caller
\* The caller changes its problem (there is no interlock).
MutateProblem ==
    /\ mutations < MaxMutations
    /\ problem' = [problem EXCEPT !.dof = @ + 1]
    /\ mutations' = mutations + 1
    /\ UNCHANGED <<abort_queue, options>>
    /\ UNCHANGED <<workerVars, bridgeVars, consumerVars>>
    /\ UNCHANGED ghostVars
    /\ UNCHANGED consoleVars

\* The caller requests an abort: abort_queue.put(...)
RequestAbort ==
    /\ Len(abort_queue) < MaxAborts
    /\ abort_queue' = Append(abort_queue, "abort")
    /\ UNCHANGED <<problem, mutations, options>>
    /\ UNCHANGED <<workerVars, bridgeVars, consumerVars>>
    /\ UNCHANGED ghostVars
    /\ UNCHANGED consoleVars

Caller == MutateProblem \/ RequestAbort

\* --------------------------------------------------------------- the worker
\* (a worker that goes on only when its events have been taken)
ReadyWhenTaken(at) ==
    /\ pc = at /\ pendingWake = "none"
    /\ FIT_PROGRESS_QUEUE = <<>> /\ FIT_COMPLETE_QUEUE = <<>>

\* The worker is at `at`, and is not between the statements of a publish.
Ready(at) == pc = at /\ pendingWake = "none"

\* run() up to driver.fit(): the monitors, the private copy, the driver.
RunSetup ==
    /\ Ready("run")
    /\ progressMon' = GUIProgressMonitorInit
    /\ convMon' = ConvergenceMonitorInit(options.convergence_update)
    /\ dreamMon' = DreamMonitorInit(options.uncertainty_update)
    /\ snapshot' = <<problem>>
    /\ pc' = "poll"
    /\ no_send
    /\ UNCHANGED <<idx, history, nEvals, pollTrue, finalLog, result>>
    /\ UNCHANGED <<callerVars, options, consumerVars>>
    /\ UNCHANGED ghostVars
    /\ UNCHANGED consoleVars

\* The fitter between two iterations: it polls abort_test, and leaves its loop
\* when that is true or when it is done (budget spent, converged).
Poll ==
    /\ Ready("poll")
    /\ IF abort_test
       THEN pollTrue' = TRUE /\ pc' = "final" /\ idx' = 1
       ELSE /\ pollTrue' = pollTrue
            /\ IF history.step >= options.steps
               THEN pc' = "final" /\ idx' = 1
               ELSE pc' = "eval" /\ idx' = idx
    /\ no_send
    /\ UNCHANGED <<snapshot, history, progressMon, convMon, dreamMon, nEvals,
                   finalLog, result>>
    /\ UNCHANGED <<callerVars, options, consumerVars>>
    /\ UNCHANGED ghostVars
    /\ UNCHANGED consoleVars

\* (a driver given the caller's own problem)
driver_problem_original == "original"

\* FitDriver(..., problem=problem, ..., mapper=mapper.start_mapper(problem, [])):
\* the problem the driver and the mapper work on is run()'s local, the copy.
driver_problem == "copy"

\* One iteration: an evaluation batch on the driver's problem, which gets the
\* parameters tried, and a new sample in the history.
Eval ==
    /\ Ready("eval")
    /\ nEvals' = nEvals + 1
    /\ \E dt \in options.dts, better \in options.improve,
          popv \in Populations(history.step + 1),
          unc \in UncertaintyStates(history.step + 1) :
         /\ history' = [step |-> history.step + 1,
                        time |-> history.time + dt,
                        value |-> IF better THEN history.value - 1 ELSE history.value,
                        point |-> IF better THEN history.step + 1 ELSE history.point,
                        population_values |-> popv,
                        uncertainty_state |-> unc]
    /\ IF driver_problem = "copy"
       THEN /\ snapshot' = <<[snapshot[1] EXCEPT !.params = history.step + 1]>>
            /\ problem' = problem
       ELSE /\ problem' = [problem EXCEPT !.params = history.step + 1]
            /\ snapshot' = snapshot
    /\ pc' = "observe"
    /\ idx' = 1
    /\ no_send
    /\ UNCHANGED <<progressMon, convMon, dreamMon, pollTrue, finalLog, result>>
    /\ UNCHANGED <<mutations, abort_queue, options, consumerVars>>
    /\ observedBefore' =
          IF history.step = 0 THEN <<>>
          ELSE IF observedBefore = <<>> \/ history.value < observedBefore[1]
               THEN <<history.value>>
               ELSE observedBefore
    /\ UNCHANGED captured
    /\ UNCHANGED consoleVars

\* The algorithm raises: nothing in run() catches it, the thread ends.
FitRaises ==
    /\ Ready("eval")
    /\ nEvals' = nEvals + 1
    /\ pc' = "failed"
    /\ no_send
    /\ UNCHANGED <<idx, snapshot, history, progressMon, convMon, dreamMon,
                   pollTrue, finalLog, result>>
    /\ UNCHANGED <<callerVars, options, consumerVars>>
    /\ UNCHANGED ghostVars
    /\ UNCHANGED consoleVars

\* GUIProgressMonitor called by the fitter (TimedUpdate.__call__), first part:
\* note a new best value, report progress when it is due.
ObserveProgress ==
    /\ Ready("observe") /\ idx = 1
    /\ LET t == history.time
           v == history.value
           isBest == progressMon.value = <<>> \/ v < progressMon.value[1]
           due == ProgressDue(progressMon, t)
       IN /\ progressMon' = [progressMon EXCEPT
                  !.improved = @ \/ isBest,
                  !.value = IF isBest THEN <<v>> ELSE @,
                  !.progress_time = IF due THEN t ELSE @]
          /\ IF due THEN send_progress(ProgressEvent, "progress", "observe")
             ELSE no_send
    /\ idx' = 2
    /\ UNCHANGED <<pc, snapshot, history, convMon, dreamMon, nEvals, pollTrue,
                   finalLog, result>>
    /\ UNCHANGED <<callerVars, options, consumerVars>>
    /\ UNCHANGED ghostVars
    /\ UNCHANGED consoleVars

\* TimedUpdate.__call__, second part: report a new best value.
ObserveImprovement ==
    /\ Ready("observe") /\ idx = 2
    /\ IF progressMon.improved
       THEN /\ progressMon' = [progressMon EXCEPT !.improved = FALSE,
                                                  !.improvement_time = history.time]
            /\ send_progress(ImprovementEvent, "improvement", "observe")
       ELSE UNCHANGED progressMon /\ no_send
    /\ idx' = 3
    /\ UNCHANGED <<pc, snapshot, history, convMon, dreamMon, nEvals, pollTrue,
                   finalLog, result>>
    /\ UNCHANGED <<callerVars, options, consumerVars>>
    /\ UNCHANGED ghostVars
    /\ UNCHANGED consoleVars

\* ConvergenceMonitor.__call__
ObserveConvergence ==
    /\ Ready("observe") /\ idx = 3
    /\ IF ConvergenceRaises(history.population_values)
       THEN /\ pc' = "failed"
            /\ no_send
            /\ UNCHANGED <<idx, convMon>>
       ELSE LET entry == ConvergenceEntry(history.value, history.population_values)
                due == ConvergenceDue(convMon.rate, history.time, convMon.time)
                m == [convMon EXCEPT !.pop = Append(@, entry)]
            IN /\ convMon' = [m EXCEPT !.time = IF due THEN history.time ELSE @]
               /\ IF due THEN send_progress(ConvergenceEvent(m), "convergence", "observe")
                  ELSE no_send
               /\ pc' = pc
               /\ idx' = 4
    /\ UNCHANGED <<snapshot, history, progressMon, dreamMon, nEvals, pollTrue,
                   finalLog, result>>
    /\ UNCHANGED <<callerVars, options, consumerVars>>
    /\ UNCHANGED ghostVars
    /\ UNCHANGED consoleVars

\* DreamMonitor.__call__
ObserveUncertainty ==
    /\ Ready("observe") /\ idx = 4
    /\ LET state == history.uncertainty_state
           due == UncertaintyDue(dreamMon.rate, history.time, dreamMon.time, state)
       IN /\ dreamMon' = [dreamMon EXCEPT
                  !.uncertainty_state = state,
                  !.time = IF due THEN history.time ELSE @]
          /\ IF due
             THEN send_progress(UncertaintyEvent("uncertainty_update", state),
                                "uncertainty", "observe")
             ELSE no_send
          /\ captured' = IF state # <<>> THEN state ELSE captured
          /\ UNCHANGED observedBefore
    /\ pc' = "poll"
    /\ UNCHANGED <<idx, snapshot, history, progressMon, convMon, nEvals, pollTrue,
                   finalLog, result>>
    /\ UNCHANGED <<callerVars, options, consumerVars>>
    /\ UNCHANGED consoleVars

\* (a loop that stops one monitor short)
FinalLoopShort == <<1, 2>>

\* run()'s loop over the monitors after driver.fit() has returned: the places
\* of `monitors` it visits, in order.
FinalLoop == <<1, 2, 3>>

\* One turn of that loop: M.final() when M has one.
Final ==
    /\ Ready("final") /\ idx \in 1..Len(FinalLoop)
    /\ LET i == FinalLoop[idx]
       IN /\ finalLog' = IF HasFinal(i) THEN Append(finalLog, Monitors[i]) ELSE finalLog
          /\ CASE i = 2 /\ HasFinal(i) ->
                    send_progress(ConvergenceEvent(convMon), "convergence", "final")
               [] i = 3 /\ HasFinal(i) /\ dreamMon.uncertainty_state # <<>> ->
                    send_progress(UncertaintyEvent("uncertainty_final",
                                                   dreamMon.uncertainty_state),
                                  "uncertainty", "final")
               [] OTHER -> no_send
    /\ IF idx = Len(FinalLoop) THEN pc' = "show" /\ idx' = 0
       ELSE pc' = pc /\ idx' = idx + 1
    /\ UNCHANGED <<snapshot, history, progressMon, convMon, dreamMon, nEvals,
                   pollTrue, result>>
    /\ UNCHANGED <<callerVars, options, consumerVars>>
    /\ UNCHANGED ghostVars
    /\ UNCHANGED consoleVars

\* driver.show() under redirect_console: the report is captured.  No other
\* thread of these runs touches the console in between.
Show ==
    /\ Ready("show")
    /\ LET fid == redirect_console_init(<<"StringIO", 0>>, <<>>)
           c == redirect_console_exit(redirect_console_enter(
                    [sys_stdout |-> sys_stdout, sys_stderr |-> sys_stderr, self |-> fid]))
       IN sys_stdout' = c.sys_stdout /\ sys_stderr' = c.sys_stderr
    /\ UNCHANGED <<rc, threads>>
    /\ pc' = "complete"
    /\ no_send
    /\ UNCHANGED <<idx, snapshot, history, progressMon, convMon, dreamMon, nEvals,
                   pollTrue, finalLog, result>>
    /\ UNCHANGED <<callerVars, options, consumerVars>>
    /\ UNCHANGED ghostVars

\* (a completion event that tells an aborted fit from a finished one)
CompleteEventMarksAbort ==
    [message |-> IF pollTrue THEN "aborted" ELSE "complete", problem |-> "original",
     point |-> history.point, value |-> history.value, info |-> "report"]

\* run()'s completion event: x, fx are what driver.fit() returned.
CompleteEvent ==
    [message |-> "complete", problem |-> "original", point |-> history.point,
     value |-> history.value, info |-> "report"]

Complete ==
    /\ Ready("complete")
    /\ send_complete(CompleteEvent)
    /\ pc' = "result"
    /\ UNCHANGED <<idx, snapshot, history, progressMon, convMon, dreamMon, nEvals,
                   pollTrue, finalLog, result>>
    /\ UNCHANGED <<callerVars, options, consumerVars>>
    /\ UNCHANGED ghostVars
    /\ UNCHANGED consoleVars

\* self.result = evt: run() returns.
Finish ==
    /\ Ready("result")
    /\ result' = <<CompleteEvent>>
    /\ pc' = "done"
    /\ no_send
    /\ UNCHANGED <<idx, snapshot, history, progressMon, convMon, dreamMon, nEvals,
                   pollTrue, finalLog>>
    /\ UNCHANGED <<callerVars, options, consumerVars>>
    /\ UNCHANGED ghostVars
    /\ UNCHANGED consoleVars

\* (a publish that does not signal)
no_write_to_self(w) == w

\* queue._loop._write_to_self(): what it leaves in the loop's self-pipe.
write_to_self(w) == TRUE

\* The second statement of send_progress / send_complete.
Wake ==
    /\ pendingWake # "none"
    /\ wake' = write_to_self(wake)
    /\ pendingWake' = "none"
    /\ UNCHANGED <<pc, idx, snapshot, history, progressMon, convMon, dreamMon,
                   nEvals, pollTrue, finalLog, result>>
    /\ UNCHANGED <<callerVars, options, FIT_PROGRESS_QUEUE, FIT_COMPLETE_QUEUE,
                   published, consumer, delivered>>
    /\ UNCHANGED ghostVars
    /\ UNCHANGED consoleVars

Worker ==
    \/ RunSetup \/ Poll \/ Eval \/ FitRaises
    \/ ObserveProgress \/ ObserveImprovement \/ ObserveConvergence
    \/ ObserveUncertainty \/ Final \/ Show \/ Complete \/ Finish \/ Wake

\* ------------------------------------------------------------- the consumer
\* The event loop, parked in its selector, is woken by the byte in its pipe.
ConsumerWake ==
    /\ consumer = "parked" /\ wake
    /\ consumer' = "running"
    /\ wake' = FALSE
    /\ UNCHANGED delivered
    /\ UNCHANGED <<callerVars, options, workerVars, bridgeVars>>
    /\ UNCHANGED ghostVars
    /\ UNCHANGED consoleVars

\* A running loop takes the next event of the progress channel.
ConsumerGetProgress ==
    /\ consumer = "running" /\ FIT_PROGRESS_QUEUE # <<>>
    /\ delivered' = Append(delivered, Head(FIT_PROGRESS_QUEUE))
    /\ FIT_PROGRESS_QUEUE' = Tail(FIT_PROGRESS_QUEUE)
    /\ UNCHANGED <<wake, consumer, FIT_COMPLETE_QUEUE, published>>
    /\ UNCHANGED <<callerVars, options, workerVars>>
    /\ UNCHANGED ghostVars
    /\ UNCHANGED consoleVars

\* A running loop takes the next event of the completion channel.
ConsumerGetComplete ==
    /\ consumer = "running" /\ FIT_COMPLETE_QUEUE # <<>>
    /\ delivered' = Append(delivered, Head(FIT_COMPLETE_QUEUE))
    /\ FIT_COMPLETE_QUEUE' = Tail(FIT_COMPLETE_QUEUE)
    /\ UNCHANGED <<wake, consumer, FIT_PROGRESS_QUEUE, published>>
    /\ UNCHANGED <<callerVars, options, workerVars>>
    /\ UNCHANGED ghostVars
    /\ UNCHANGED consoleVars

\* With nothing to take, the loop parks in its selector.
ConsumerPark ==
    /\ consumer = "running"
    /\ FIT_PROGRESS_QUEUE = <<>> /\ FIT_COMPLETE_QUEUE = <<>>
    /\ consumer' = "parked"
    /\ UNCHANGED <<wake, delivered>>
    /\ UNCHANGED <<callerVars, options, workerVars, bridgeVars>>
    /\ UNCHANGED ghostVars
    /\ UNCHANGED consoleVars

Consumer == ConsumerWake \/ ConsumerGetProgress \/ ConsumerGetComplete \/ ConsumerPark

\* ------------------------------------------ threads using redirect_console
\* A thread is [objs, depth, todo, frames, raised]: the objects it uses, how
\* deep it nests, how many with-blocks it has yet to enter, the with-blocks it
\* is in and whether an exception is on its way out.  A with-block (frame) is
\* [obj, at, out, err]: its object, the statement it is at (1..4: those of
\* __enter__, 5: the block's body, 6..9: those of __exit__) and, as a log, the
\* process streams as they were when the with statement began.
fitVars == <<callerVars, options, workerVars, bridgeVars, consumerVars, ghostVars>>

InBody(th) == th.frames # <<>> /\ Last(th.frames).at = 5

\* `with obj:` begins, at the top of the thread or inside the body of a block.
WithEnter ==
    \E t \in DOMAIN threads, o \in DOMAIN rc :
    LET th == threads[t]
    IN /\ ~th.raised /\ th.todo > 0 /\ o \in th.objs
       /\ Len(th.frames) < th.depth
       /\ th.frames = <<>> \/ InBody(th)
       /\ threads' = [threads EXCEPT
              ![t].frames = Append(@, [obj |-> o, at |-> 1,
                                       out |-> sys_stdout, err |-> sys_stderr]),
              ![t].todo = @ - 1]
       /\ UNCHANGED <<sys_stdout, sys_stderr, rc, fitVars>>

\* The next statement of __enter__ or of __exit__.  After the last one of
\* __exit__ the with statement is left; an exception on its way out then
\* leaves the enclosing block too, unless __exit__ returned true.
ConsoleStatement ==
    \E t \in DOMAIN threads :
    LET th == threads[t]
        n == Len(th.frames)
        top == th.frames[n]
        c == [sys_stdout |-> sys_stdout, sys_stderr |-> sys_stderr, self |-> rc[top.obj]]
        d == IF top.at <= 4 THEN enter_statement(c, top.at)
             ELSE exit_statement(c, top.at - 5)
        goesOn == th.raised /\ ~exit_returns
    IN /\ th.frames # <<>> /\ top.at # 5
       /\ sys_stdout' = d.sys_stdout
       /\ sys_stderr' = d.sys_stderr
       /\ rc' = [rc EXCEPT ![top.obj] = d.self]
       /\ threads' =
             IF top.at < 9
             THEN [threads EXCEPT ![t].frames[n].at = top.at + 1]
             ELSE [threads EXCEPT
                      ![t].raised = goesOn,
                      ![t].frames =
                          IF n > 1 /\ goesOn
                          THEN [SubSeq(th.frames, 1, n - 1) EXCEPT ![n - 1].at = 6]
                          ELSE SubSeq(th.frames, 1, n - 1)]
       /\ UNCHANGED fitVars

\* The body of the innermost block ends.
BlockEnds ==
    \E t \in DOMAIN threads :
    LET th == threads[t]
    IN /\ InBody(th) /\ ~th.raised
       /\ threads' = [threads EXCEPT ![t].frames[Len(th.frames)].at = 6]
       /\ UNCHANGED <<sys_stdout, sys_stderr, rc, fitVars>>

\* The body of the innermost block raises.
BlockRaises ==
    \E t \in DOMAIN threads :
    LET th == threads[t]
    IN /\ InBody(th) /\ ~th.raised
       /\ threads' = [threads EXCEPT ![t].frames[Len(th.frames)].at = 6,
                                     ![t].raised = TRUE]
       /\ UNCHANGED <<sys_stdout, sys_stderr, rc, fitVars>>

ConsoleNext == WithEnter \/ ConsoleStatement \/ BlockEnds \/ BlockRaises

IdleJob == Job(0, 0, 0, {1}, {TRUE}, "none", FALSE)

NewThread(objs, depth, todo) ==
    [objs |-> objs, depth |-> depth, todo |-> todo, frames |-> <<>>, raised |-> FALSE]

\* One thread nesting with-blocks on two objects: redirect_console() and
\* redirect_console(file, file).
NestInit ==
    /\ FitInit({IdleJob})
    /\ sys_stdout = OriginalStdout
    /\ sys_stderr = OriginalStderr
    /\ rc = <<redirect_console_init(<<"StringIO", 1>>, <<>>),
              redirect_console_init(<<"file", 2>>, << <<"file", 3>> >>)>>
    /\ threads = <<NewThread({1, 2}, MaxDepth, MaxBlocks)>>

\* MaxJobs fit threads at run()'s `with redirect_console() as fid:`, each with
\* the object it has just made.
ConcurrentInit ==
    /\ FitInit({IdleJob})
    /\ sys_stdout = OriginalStdout
    /\ sys_stderr = OriginalStderr
    /\ rc = [j \in 1..MaxJobs |-> redirect_console_init(<<"StringIO", j>>, <<>>)]
    /\ threads = [j \in 1..MaxJobs |-> NewThread({j}, 1, 1)]

\* ------------------------------------------------------- the specifications
Next == Caller \/ Worker \/ Consumer

\* The whole system: caller, worker thread and consumer.
Spec == Init /\ [][Next]_vars

\* The job seen from the caller's side.  No step of the worker reads what the
\* consumer writes, so the consumer is left out.
JobNext == Caller \/ Worker
JobSpec == Init /\ [][JobNext]_vars

\* The worker thread is scheduled by the operating system.
LiveInit == InitWith(LiveOptions)
JobFairSpec == LiveInit /\ [][JobNext]_vars /\ WF_vars(Worker)

\* The bridge: the worker publishing, the consumer taking.
BridgeNext == Worker \/ Consumer
BridgeSpec == Init /\ [][BridgeNext]_vars

\* The worker is scheduled by the operating system, the consumer by its loop.
BridgeFairSpec ==
    LiveInit /\ [][BridgeNext]_vars /\ WF_vars(Worker) /\ WF_vars(Consumer)

\* The worker is scheduled; the consumer may take events or leave them.
BridgeWorkerFairSpec == LiveInit /\ [][BridgeNext]_vars /\ WF_vars(Worker)

\* The end-to-end scenario.
ScenarioInit == InitWith(ScenarioOptions)
ScenarioSpec == ScenarioInit /\ [][JobNext]_vars

\* The convergence monitor on any population.
QuantileInit == InitWith(QuantileOptions)
QuantileSpec == QuantileInit /\ [][Worker]_vars

\* redirect_console on one thread.
NestSpec == NestInit /\ [][ConsoleNext]_vars

\* redirect_console in the fit threads of several jobs.
ConcurrentSpec == ConcurrentInit /\ [][ConsoleNext]_vars

\* ================================================================ the claims
ThreadEnded == pc \in {"done", "failed"}
Finalized == pc \in {"show", "complete", "result", "done"}
PublishedAs(kinds) == {i \in 1..Len(published) : published[i].message \in kinds}

\* C1: for every started job, whatever the outcome of the fit (it returns, it
\* returns after an abort, it raises), exactly one terminal event goes to the
\* completion channel: never more than one, and one once the thread has ended.
C1_ExactlyOneTerminalEvent ==
    /\ Cardinality(PublishedAs({"complete"})) <= 1
    /\ ThreadEnded =>
          /\ Cardinality(PublishedAs({"complete"})) = 1
          /\ Len(FIT_COMPLETE_QUEUE) + Len(SelectSeqBy(delivered, {"complete"})) = 1

QueuedOrTaken(kinds) ==
    SelectSeqBy(delivered \o FIT_PROGRESS_QUEUE \o FIT_COMPLETE_QUEUE, kinds)

\* The scenario has run to its end: cadence 0, five iterations.
ScenarioDone ==
    pc = "done" /\ options.convergence_update = 0 /\ history.step = 5

\* C3 as stated: the final-only job of 5 iterations publishes no
\* convergence_update event at all, and one complete event, with step = 5.
C3_NoConvergenceEventAndStep ==
    ScenarioDone =>
        /\ PublishedAs({"convergence_update"}) = {}
        /\ Len(QueuedOrTaken({"complete"})) = 1
        /\ LET e == QueuedOrTaken({"complete"})[1]
           IN "step" \in DOMAIN e /\ e.step = 5

\* C3 as amended: the final-only job of 5 iterations publishes no
\* convergence_update event while the fitter runs and exactly one at
\* finalization, with the 5 entries recorded; and one complete event, with the
\* fields message, problem, point, value and info (and the publication number),
\* none of which is a step.
C3_FinalOnlyConvergenceEvent ==
    ScenarioDone =>
        /\ \A i \in PublishedAs({"convergence_update"}) : published[i].phase = "final"
        /\ Cardinality(PublishedAs({"convergence_update"})) = 1
        /\ Len(QueuedOrTaken({"convergence_update"})) = 1
        /\ Len(QueuedOrTaken({"convergence_update"})[1].pop) = 5
        /\ Len(QueuedOrTaken({"complete"})) = 1
        /\ DOMAIN QueuedOrTaken({"complete"})[1] =
               {"message", "problem", "point", "value", "info", "seq"}

C3_Witness_ScenarioDone == ScenarioDone /\ Len(QueuedOrTaken({"complete"})) = 1

\* C4 as stated: the consumer takes the events of the job in the order the job
\* published them, whichever channel they came through.
C4_DeliveredInPublishedOrder ==
    \A i, j \in 1..Len(delivered) : i < j => delivered[i].seq < delivered[j].seq

Channel(e) == IF e.message = "complete" THEN "complete" ELSE "progress"

\* C4 as amended: the consumer takes the events of each channel in the order
\* the job published them on that channel (and what is still queued on the
\* channel was published after them, in queue order); between the two channels
\* no order is kept, the complete event may be taken before earlier events of
\* the progress channel.
C4_DeliveredInOrderPerChannel ==
    /\ \A i, j \in 1..Len(delivered) :
          (i < j /\ Channel(delivered[i]) = Channel(delivered[j]))
              => delivered[i].seq < delivered[j].seq
    /\ \A i, j \in 1..Len(FIT_PROGRESS_QUEUE) :
          i < j => FIT_PROGRESS_QUEUE[i].seq < FIT_PROGRESS_QUEUE[j].seq
    /\ \A i \in 1..Len(delivered), j \in 1..Len(FIT_PROGRESS_QUEUE) :
          Channel(delivered[i]) = "progress" => delivered[i].seq < FIT_PROGRESS_QUEUE[j].seq

\* The consumer has taken two progress-channel events and, before one of them,
\* the complete event.
C4_Witness_CompleteOvertakes ==
    \E i, j, k \in 1..Len(delivered) :
        /\ i < j /\ Channel(delivered[i]) = "progress" /\ Channel(delivered[j]) = "progress"
        /\ k < j /\ Channel(delivered[k]) = "complete"

\* C5: every publish enqueues and then, as the worker's very next step, signals
\* the loop's wake-up; a consumer parked while an event is queued is woken; and
\* every event put on a queue is taken by the consumer in the end.
C5_PublishWakesConsumer ==
    /\ [][(pendingWake # "none" /\ workerVars' # workerVars)
            => (wake' /\ pendingWake' = "none" /\ pc' = pc /\ idx' = idx
                /\ published' = published)]_vars
    /\ [][Len(published') > Len(published) => pendingWake' # "none"]_vars
    /\ (consumer = "parked" /\ FIT_PROGRESS_QUEUE \o FIT_COMPLETE_QUEUE # <<>>)
          ~> (consumer = "running")
    /\ <>[](/\ Len(delivered) = Len(published)
            /\ FIT_PROGRESS_QUEUE = <<>> /\ FIT_COMPLETE_QUEUE = <<>>)

\* The consumer is parked, an event has just been put on the progress queue and
\* the wake-up has not been signalled yet.
C5_Witness_ParkedWhileEnqueued ==
    /\ consumer = "parked" /\ ~wake
    /\ pendingWake = "progress"
    /\ FIT_PROGRESS_QUEUE # <<>>

StartProblem == [dof |-> 1, params |-> 0]

\* C6: once the job is started, what the caller does to its problem changes
\* nothing the job sees: the problem the fitter evaluates is the problem as it
\* was at the start, and so is the chisq of every progress event; and the job
\* changes nothing of the caller's problem.
C6_Isolation ==
    /\ snapshot # <<>> => snapshot[1].dof = StartProblem.dof
    /\ \A i \in 1..Len(QueuedOrTaken({"progress"})) :
          LET e == QueuedOrTaken({"progress"})[i]
              s == nllf_scale(StartProblem)
          IN e.chisq = format_uncertainty(s.scale * e.value, s.err)
    /\ problem.params = StartProblem.params

\* C7: once abort_test has answered True to the fitter's poll, no evaluation
\* batch is started and no iteration is recorded any more; a poll made with a
\* request on the abort queue is answered True and ends the fitter's loop; and
\* the thread then runs to its end, monitors finalized, complete published.
C7_AbortStopsWithinOneIteration ==
    /\ [][pollTrue => (nEvals' = nEvals /\ history' = history /\ pollTrue')]_vars
    /\ [][(pc = "poll" /\ pendingWake = "none" /\ abort_queue # <<>> /\ pc' # pc)
            => (pollTrue' /\ pc' = "final" /\ nEvals' = nEvals)]_vars
    /\ [](pollTrue => pc \in {"final", "show", "complete", "result", "done"})
    /\ pollTrue ~> (/\ pc = "done" /\ finalLog = Monitors
                    /\ Cardinality(PublishedAs({"complete"})) = 1)

\* A job aborted before its budget was spent has reached its end.
C7_Witness_AbortedDone ==
    pollTrue /\ pc = "done" /\ history.step < options.steps /\ history.step > 0

\* C8: abort_test is true exactly when a request is on the abort queue, one or
\* several; nothing takes a request off the queue, no step of the worker changes
\* the queue, and once abort_test is true (in particular once it has answered
\* True to a poll) it stays true.
C8_AbortFlagMonotone ==
    /\ [](abort_test <=> Len(abort_queue) >= 1)
    /\ [][abort_test => abort_test']_vars
    /\ [][Len(abort_queue') >= Len(abort_queue)]_vars
    /\ [][workerVars' # workerVars => abort_queue' = abort_queue]_vars
    /\ [](pollTrue => abort_test)

\* Two requests are on the queue and a poll has seen the abort.
C8_Witness_TwoRequests == Len(abort_queue) = 2 /\ pollTrue /\ pc = "done"

\* The configured cadence of a rate-gated monitor.
Cadence(mon) ==
    CASE mon = "progress" -> PROGRESS_DELAY
      [] mon = "convergence" -> options.convergence_update
      [] mon = "uncertainty" -> options.uncertainty_update

GatedMonitors == {"progress", "convergence", "uncertainty"}

\* C9 as stated: any two events one of these monitors emits during the job are
\* at least its cadence of trajectory time (history.time) apart.
C9_AllEmissionsGated ==
    \A i, j \in 1..Len(published) :
        (i < j /\ published[i].mon \in GatedMonitors /\ published[i].mon = published[j].mon)
            => published[j].at - published[i].at >= Cadence(published[i].mon)

\* C9 as amended: any two events one of these monitors emits from its observe
\* calls are at least its cadence of trajectory time apart; the event a monitor
\* emits at finalize is not gated.
C9_ObserveEmissionsGated ==
    \A i, j \in 1..Len(published) :
        (/\ i < j /\ published[i].mon \in GatedMonitors
         /\ published[i].mon = published[j].mon
         /\ published[i].phase = "observe" /\ published[j].phase = "observe")
            => published[j].at - published[i].at >= Cadence(published[i].mon)

\* Each of the three monitors has emitted twice from observe calls.
C9_Witness_TwoEmissions ==
    \A m \in GatedMonitors :
        \E i, j \in 1..Len(published) :
            /\ i < j /\ published[i].mon = m /\ published[j].mon = m
            /\ published[i].phase = "observe" /\ published[j].phase = "observe"

\* The value at place k (from 0) of pop in ascending order: k values or fewer
\* are below it and more than k are not above it.
OrderStat(pop, k) ==
    CHOOSE v \in {pop[i] : i \in 1..Len(pop)} :
        /\ Cardinality({i \in 1..Len(pop) : pop[i] < v}) <= k
        /\ Cardinality({i \in 1..Len(pop) : pop[i] <= v}) > k

JustObserved == pc = "observe" /\ idx = 4 /\ pendingWake = "none" /\ convMon.pop # <<>>

\* C10: the entry the convergence monitor records for a sample with a
\* population of n >= 1 values is (best, s[0], s[n div 5], s[n div 2],
\* s[n-1 - n div 5], s[n-1]), s the values in ascending order, so (best,1,3,5,7,9)
\* for [5,3,9,1,7]; for a sample without population data it is (best).
C10_QuantileTuple ==
    JustObserved =>
        LET popv == history.population_values
            best == history.value
            entry == Last(convMon.pop)
        IN IF popv = <<>> THEN entry = <<best>>
           ELSE LET pop == popv[1]
                    n == Len(pop)
                IN /\ n >= 1
                   /\ entry = <<best, OrderStat(pop, 0), OrderStat(pop, n \div 5),
                                OrderStat(pop, n \div 2),
                                OrderStat(pop, n - 1 - (n \div 5)),
                                OrderStat(pop, n - 1)>>
                   /\ pop = <<5, 3, 9, 1, 7>> => entry = <<best, 1, 3, 5, 7, 9>>

\* The documented example has been recorded.
C10_Witness_Example ==
    /\ JustObserved
    /\ history.population_values = << <<5, 3, 9, 1, 7>> >>
    /\ Last(convMon.pop) = <<history.value, 1, 3, 5, 7, 9>>

\* The calls the fitter has made to the convergence monitor so far.
ConvergenceCalls ==
    IF pc = "observe" /\ idx <= 3 THEN history.step - 1 ELSE history.step

ConvergenceEvents == QueuedOrTaken({"convergence_update"})

IsPrefix(s, t) == Len(s) <= Len(t) /\ \A k \in 1..Len(s) : s[k] = t[k]

\* C11: every call of the convergence monitor adds exactly one entry to its
\* sequence, whether the call emits or not; every event the monitor emits, from
\* a call or at finalize, carries the whole sequence recorded so far, so as many
\* entries as calls were made; and the payload of an event is a prefix of the
\* payload of every later event of the job.
C11_ConvergencePayloadAccumulates ==
    /\ [](Len(convMon.pop) = ConvergenceCalls)
    /\ [][(Len(published') > Len(published)
            /\ Last(published').message = "convergence_update")
           => (/\ Last(FIT_PROGRESS_QUEUE').pop = convMon'.pop
               /\ Len(Last(FIT_PROGRESS_QUEUE').pop) = ConvergenceCalls')]_vars
    /\ [](\A i, j \in 1..Len(ConvergenceEvents) :
             i <= j => IsPrefix(ConvergenceEvents[i].pop, ConvergenceEvents[j].pop))

\* The first call did not emit, the second emitted both entries, and finalize
\* emitted them again.
C11_Witness_SilentCallThenTwoEntries ==
    /\ Len(ConvergenceEvents) = 2
    /\ Len(ConvergenceEvents[1].pop) = 2
    /\ published[ConvergenceEvents[1].seq].phase = "observe"
    /\ published[ConvergenceEvents[2].seq].phase = "final"
    /\ ConvergenceEvents[2].pop = ConvergenceEvents[1].pop

\* C12: when the history carried an uncertainty state at one or more calls of
\* the uncertainty monitor, finalize emits exactly one uncertainty_final event,
\* with the last state that was found, also when later calls found none; when no
\* call found one, the monitor emits nothing, neither uncertainty_update nor
\* uncertainty_final.
C12_UncertaintyFinalIfEverCaptured ==
    Finalized =>
        IF captured # <<>>
        THEN /\ Cardinality(PublishedAs({"uncertainty_final"})) = 1
             /\ Len(QueuedOrTaken({"uncertainty_final"})) = 1
             /\ QueuedOrTaken({"uncertainty_final"})[1].uncertainty_state = captured[1]
        ELSE PublishedAs({"uncertainty_update", "uncertainty_final"}) = {}

EventKinds == {"progress", "improvement", "convergence_update", "uncertainty_update",
               "uncertainty_final", "complete"}

\* The kinds of the events published while the monitors were finalized, in order.
FinalPhaseKinds ==
    LET F[i \in 0..Len(published)] ==
            IF i = 0 THEN <<>>
            ELSE IF published[i].phase = "final"
                 THEN Append(F[i - 1], published[i].message)
                 ELSE F[i - 1]
    IN F[Len(published)]

\* The monitors of run()'s list that have a final(), in the order of the list.
FinalizableMonitors ==
    LET F[i \in 0..NMonitors] ==
            IF i = 0 THEN <<>>
            ELSE IF HasFinal(i) THEN Append(F[i - 1], Monitors[i]) ELSE F[i - 1]
    IN F[NMonitors]

\* C13: a job that has run to its end has had every monitor finalized, in the
\* order of the list, has published at finalization one convergence_update and,
\* when the uncertainty monitor holds a state, one uncertainty_final, and has
\* published one complete event with the original problem, the best point, the
\* best value and the report; this whether the fitter ended on the abort flag or
\* not; and every event published is of one of the six kinds, none marks the abort.
C13_AbortedPublishesAsCompleted ==
    /\ \A i \in 1..Len(published) : published[i].message \in EventKinds
    /\ pc = "done" =>
          /\ finalLog = FinalizableMonitors
          /\ FinalPhaseKinds =
                 IF dreamMon.uncertainty_state # <<>>
                 THEN <<"convergence_update", "uncertainty_final">>
                 ELSE <<"convergence_update">>
          /\ Cardinality(PublishedAs({"complete"})) = 1
          /\ Last(published).message = "complete"
          /\ Len(QueuedOrTaken({"complete"})) = 1
          /\ LET e == QueuedOrTaken({"complete"})[1]
             IN /\ DOMAIN e = {"message", "problem", "point", "value", "info", "seq"}
                /\ e.problem = "original"
                /\ e.point = history.point
                /\ e.value = history.value
                /\ e.info = "report"

\* A sampler job aborted after the first of its two iterations has run to its end.
C13_Witness_AbortedSamplerDone ==
    /\ pc = "done" /\ pollTrue
    /\ history.step = 1 /\ options.steps = 2
    /\ dreamMon.uncertainty_state # <<>>

Undelivered == Len(FIT_PROGRESS_QUEUE) + Len(FIT_COMPLETE_QUEUE)

\* C14: as long as the thread has not ended the worker has a step it can take,
\* whatever the consumer has taken or left; a publish adds its event to the
\* queue whatever the number of events waiting there; and the thread reaches its
\* end, also when the consumer takes nothing.
C14_WorkerNeverWaits ==
    /\ [](~ThreadEnded => ENABLED <<Worker>>_vars)
    /\ [][Len(published') > Len(published)
            => (/\ Len(published') = Len(published) + 1
                /\ Undelivered' = Undelivered + 1
                /\ delivered' = delivered)]_vars
    /\ <>ThreadEnded

\* The job has run to its end and the consumer has taken nothing: the complete
\* event and six events of the progress channel wait on the queues.
C14_Witness_DoneNothingTaken ==
    /\ pc = "done" /\ delivered = <<>> /\ consumer = "parked"
    /\ Len(FIT_COMPLETE_QUEUE) = 1 /\ Len(FIT_PROGRESS_QUEUE) >= 6

Buffer(buf) ==
    CASE buf = "history.point" -> history.point
      [] buf = "self.pop" -> convMon.pop
      [] buf = "uncertainty_state" -> history.step

\* The payload of an event as it was when the event was built.
PayloadBuilt(e) ==
    CASE e.message \in {"progress", "improvement"} -> e.point
      [] e.message = "convergence_update" -> e.pop
      [] e.message \in {"uncertainty_update", "uncertainty_final"} -> e.uncertainty_state

\* The payload as whoever holds the event reads it now.
PayloadRead(e) == IF e.storage = "fresh" THEN PayloadBuilt(e) ELSE Buffer(e.storage)

PayloadEvents ==
    QueuedOrTaken({"progress", "improvement", "convergence_update",
                   "uncertainty_update", "uncertainty_final"})

\* C16: the point of a progress or improvement event, the sequence of a
\* convergence event and the state of an uncertainty event, read at any time
\* after the event was put on the queue, are what they were when the event was
\* built, whatever the worker has done to its point buffer, to the monitor's
\* list and to the sampler's state since.
C16_PayloadsAreCopies ==
    \A i \in 1..Len(PayloadEvents) :
        PayloadRead(PayloadEvents[i]) = PayloadBuilt(PayloadEvents[i])

\* The consumer holds an event of each kind whose payload is no longer what the
\* worker's object holds.
C16_Witness_BuffersMovedOn ==
    \A k \in {"progress", "improvement", "convergence_update", "uncertainty_update"} :
        \E i \in 1..Len(delivered) :
            /\ delivered[i].message = k
            /\ PayloadBuilt(delivered[i]) #
                   Buffer(CASE k \in {"progress", "improvement"} -> "history.point"
                            [] k = "convergence_update" -> "self.pop"
                            [] k = "uncertainty_update" -> "uncertainty_state")

\* C17: on one thread, when a with-block on a redirect_console object is left,
\* sys.stdout and sys.stderr are the streams they were when its with statement
\* began, whether its body ended or raised; an exception of the body is still on
\* its way out after __exit__; and with no block open both are the streams the
\* process started with.
C17_ConsoleRestoredOnExit ==
    /\ [][\A t \in DOMAIN threads :
            Len(threads'[t].frames) < Len(threads[t].frames)
                => (/\ sys_stdout' = Last(threads[t].frames).out
                    /\ sys_stderr' = Last(threads[t].frames).err
                    /\ threads'[t].raised = threads[t].raised)]_vars
    /\ [](\A t \in DOMAIN threads :
             threads[t].frames = <<>> =>
                 sys_stdout = OriginalStdout /\ sys_stderr = OriginalStderr)

\* Three blocks deep, the innermost on the object of the outermost, an exception
\* on its way out, the innermost exit half done.
C17_Witness_NestedRaise ==
    \E t \in DOMAIN threads :
        /\ Len(threads[t].frames) = 3
        /\ threads[t].frames[1].obj = 1 /\ threads[t].frames[2].obj = 2
        /\ threads[t].frames[3].obj = 1
        /\ threads[t].raised
        /\ threads[t].frames[3].at = 8

AllJobsLeft ==
    \A t \in DOMAIN threads : threads[t].todo = 0 /\ threads[t].frames = <<>>

\* C20: when every job has left its redirect_console block, sys.stdout and
\* sys.stderr are the streams the process started with, however the jobs'
\* entries and exits were interleaved.
C20_ConsoleRestoredAfterAllJobs ==
    (DOMAIN threads # {} /\ AllJobsLeft)
        => sys_stdout = OriginalStdout /\ sys_stderr = OriginalStderr

CompletePublished == PublishedAs({"complete"}) # {}

\* C18: when the complete event is published the final() of every monitor has
\* been called and has returned, so the convergence_update and the
\* uncertainty_final of the finalization are published before it; and the
\* complete event is the last event the job publishes.
C18_CompleteAfterFinalizeAndLast ==
    /\ [](CompletePublished =>
             /\ pc \in {"result", "done"}
             /\ finalLog = FinalizableMonitors
             /\ FinalPhaseKinds =
                    IF dreamMon.uncertainty_state # <<>>
                    THEN <<"convergence_update", "uncertainty_final">>
                    ELSE <<"convergence_update">>
             /\ PublishedAs({"complete"}) = {Len(published)})
    /\ [][CompletePublished => published' = published]_vars
    /\ [][(~CompletePublished /\ CompletePublished') => pc = "complete"]_vars

\* The complete event has been published after two events of the finalization
\* and is the seventh event or later.
C18_Witness_CompleteAfterFinals ==
    /\ CompletePublished
    /\ Len(FinalPhaseKinds) = 2
    /\ Len(published) >= 7
    /\ pendingWake = "complete"

AllEvents == delivered \o FIT_PROGRESS_QUEUE \o FIT_COMPLETE_QUEUE

\* C19: no step of the worker changes the caller's problem, whose parameters
\* stay as they were whatever the fitter tries; the copy is made once, by run()
\* before the fitter starts, and is from then on changed by the fitter's
\* iterations only; and every event that carries a problem (improvement,
\* convergence, uncertainty, complete) carries the caller's problem, not the
\* copy.
C19_WorkerNeverWritesOriginal ==
    /\ [][workerVars' # workerVars => problem' = problem]_vars
    /\ [](problem.params = StartProblem.params)
    /\ [][snapshot' # snapshot =>
            IF snapshot = <<>>
            THEN pc = "run" /\ nEvals = 0 /\ snapshot' = <<problem>>
            ELSE /\ pc = "eval"
                 /\ snapshot' = <<[snapshot[1] EXCEPT !.params = history'.step]>>]_vars
    /\ [](pc # "run" => snapshot # <<>>)
    /\ [](\A i \in 1..Len(AllEvents) :
             /\ "problem" \in DOMAIN AllEvents[i] => AllEvents[i].problem = "original"
             /\ AllEvents[i].message = "complete" => "problem" \in DOMAIN AllEvents[i])

\* The fitter has set the parameters of its copy twice, the caller's problem
\* has the parameters it started with, and the complete event is published.
C19_Witness_CopyMovedOriginalKept ==
    /\ snapshot # <<>> /\ snapshot[1].params = 2
    /\ problem.params = 0
    /\ CompletePublished /\ pc = "done"

====
